---------------------------- MODULE Spec2Model ----------------------------
(***************************************************************************)
(* Work tracking engine of the platform (domain/work.js): creation,       *)
(* progress reporting, deletion and retention scan of asynchronous jobs   *)
(* ("works").  A job is kept in two stores: the work store (one record    *)
(* per job, updated by server-side scripts) and the counter store (the    *)
(* expected / processed numbers of the job).  Every store call is one     *)
(* step; a handler that awaits several store calls is a sequence of       *)
(* steps that interleaves with the steps of the other callers.            *)
(***************************************************************************)
EXTENDS Integers, Sequences, FiniteSets, TLC

(***************************************************************************)
(* Bounds of the model.                                                    *)
(***************************************************************************)
MaxWorks == 3        \* job identifiers the identifier source can issue
MaxReports == 2      \* reporting calls started in one behaviour
MaxExpected == 1     \* cap of import_expected_number
MaxTicks == 1        \* clock advances in one behaviour
MaxSeeded == 2       \* earlier jobs the stores hold when SpecStore starts
TicksPerDay == 2     \* resolution of the clock: instants per calendar day
paginationCount == 1 \* page size of the retention scan (500 in the source)
firstDefault == 1    \* default `first` of worksForSource (10 in the source)

(***************************************************************************)
(* Program constants.                                                      *)
(***************************************************************************)
Null == 0                 \* null, '' and every other falsy value
EnrichmentKeepDays == 2   \* 'now-2d/d'
DefaultKeepDays == 30     \* 'now-30d/d'
exportFirst == 10         \* `first: 10` of loadExportWorksAsProgressFiles

CONNECTOR_INTERNAL_ENRICHMENT == "INTERNAL_ENRICHMENT"
CONNECTOR_INTERNAL_EXPORT_FILE == "INTERNAL_EXPORT_FILE"

Procs == {"p1", "p2"}
Platform == {"p1"}   \* the caller that also creates jobs and runs scans
WorkIds == 1 .. MaxWorks
Users == {"u"}
Sources == {"src1", "src2"}
Messages == {"", "m"}
NoErrorData == [error |-> "", source |-> ""]
ErrorDatas == {[error |-> "boom", source |-> "worker-2"]}

\* The connectors of the registry: one enrichment connector, one export one.
Connectors ==
  { [id |-> "c1", internal_id |-> "c1", connector_type |-> CONNECTOR_INTERNAL_ENRICHMENT],
    [id |-> "c2", internal_id |-> "c2", connector_type |-> CONNECTOR_INTERNAL_EXPORT_FILE] }

Enrichment == { c \in Connectors : c.connector_type = CONNECTOR_INTERNAL_ENRICHMENT }

NoWork == [internal_id |-> Null]
NoType == ""   \* worksForSource without a type
NoCounter == [absent |-> TRUE]
Idle == [op |-> "idle"]

VARIABLES
  works,        \* work store: job id -> job record, or NoWork
  counters,     \* counter store: job id -> counter record, or NoCounter
  clock,        \* the current instant, now()
  pc,           \* per caller: the handler it runs, its position and locals
  allocated,    \* job ids generateWorkId has issued
  indexed,      \* job ids whose record was inserted at some time
  ticks,        \* history: clock advances so far
  reports,      \* history: reporting calls started so far
  storeError,   \* history: some store call has failed
  finalWrites,  \* history: per job, finalizing writes (capped at 2)
  actionFinal,  \* history: per job, finalizing writes of reportActionImport
  enMoved,      \* history: per job, the expectation changed after a report
  appends       \* history: per job, returned calls that carried a log entry

vars == << works, counters, clock, pc, allocated, indexed, ticks, reports,
           storeError, finalWrites, actionFinal, enMoved, appends >>

history == << finalWrites, actionFinal, enMoved, appends >>

(***************************************************************************)
(* Helpers.                                                                *)
(***************************************************************************)
Min(a, b) == IF a <= b THEN a ELSE b

Exists(id) == works[id] # NoWork
HasCounter(id) == counters[id] # NoCounter

\* now(): the current instant.
now == clock

\* The calendar day of an instant.
Day(t) == t \div TicksPerDay

\* isNotEmptyField(message)
isNotEmptyField(m) == m # ""

\* rangeToKeep: the days kept for a connector ('now-2d/d' or 'now-30d/d').
rangeToKeep(connector) ==
  IF connector.connector_type = CONNECTOR_INTERNAL_ENRICHMENT
    THEN EnrichmentKeepDays ELSE DefaultKeepDays

\* The query of the retention scan: connector, status and range clauses.
\* lte 'now-Nd/d' rounds to the end of the day N days before today.
MatchesQuery(connector, w) ==
  /\ w # NoWork
  /\ w.connector_id = connector.id
  /\ w.status = "complete"
  /\ w.completed_time # Null
  /\ Day(w.completed_time) <= Day(now) - rangeToKeep(connector)

\* The pages a sorted search may return: the n first of the candidates in
\* descending order of key; candidates of equal key come in any order.
TopPages(cands, key, n) ==
  { P \in SUBSET cands :
      /\ Cardinality(P) = Min(n, Cardinality(cands))
      /\ \A a \in P : \A b \in cands \ P : key[a] >= key[b] }

\* el.search of the scan: one page after the cursor, completed_time desc.
SearchPages(connector, searchAfter) ==
  LET cands == { id \in WorkIds :
                   /\ MatchesQuery(connector, works[id])
                   /\ (searchAfter # Null => works[id].completed_time < searchAfter) }
      key == [id \in cands |-> works[id].completed_time]
  IN  TopPages(cands, key, paginationCount)

\* The sort value of the last hit of a page.
LastSort(P) == CHOOSE t \in { works[id].completed_time : id \in P } :
                 \A id \in P : works[id].completed_time >= t

\* redisDeleteWork(ids)
redisDeleteWork(ids) == [id \in WorkIds |-> IF id \in ids THEN NoCounter ELSE counters[id]]

\* elDeleteInstanceIds(works)
elDeleteInstanceIds(ids) == [id \in WorkIds |-> IF id \in ids THEN NoWork ELSE works[id]]

Inc2(n) == Min(n + 1, 2)

(***************************************************************************)
(* Initial state: both stores empty, every caller idle.                   *)
(***************************************************************************)
Init ==
  /\ works = [id \in WorkIds |-> NoWork]
  /\ counters = [id \in WorkIds |-> NoCounter]
  /\ clock = TicksPerDay
  /\ pc = [p \in Procs |-> Idle]
  /\ allocated = {}
  /\ indexed = {}
  /\ ticks = 0
  /\ reports = 0
  /\ storeError = FALSE
  /\ finalWrites = [id \in WorkIds |-> 0]
  /\ actionFinal = [id \in WorkIds |-> 0]
  /\ enMoved = [id \in WorkIds |-> FALSE]
  /\ appends = [id \in WorkIds |-> 0]

(***************************************************************************)
(* The clock advances by the shorter retention period.                     *)
(***************************************************************************)
Tick ==
  /\ ticks < MaxTicks
  /\ clock' = clock + EnrichmentKeepDays * TicksPerDay
  /\ ticks' = ticks + 1
  /\ UNCHANGED << works, counters, pc, allocated, indexed, reports, storeError, history >>

(***************************************************************************)
(* deleteOldCompletedWorks(connector): the retention scan, also the first *)
(* step of createWork.                                                     *)
(***************************************************************************)
InScan(p) == pc[p].op \in {"createWork", "deleteOldCompletedWorks"}

CreatesInFlight == Cardinality({ p \in Procs : pc[p].op = "createWork" /\ pc[p].workId = Null })

\* generateWorkId(): an identifier never issued before.
generateWorkId == CHOOSE id \in WorkIds \ allocated : \A o \in WorkIds \ allocated : id <= o

\* createWork is called: the scan starts.
CreateWorkCall(p, user, connector, sourceId, receivedTime) ==
  /\ pc[p] = Idle
  /\ Cardinality(allocated) + CreatesInFlight < MaxWorks
  /\ pc' = [pc EXCEPT ![p] =
              [op |-> "createWork", step |-> "search", connector |-> connector,
               user |-> user, sourceId |-> sourceId, receivedTime |-> receivedTime,
               searchAfter |-> Null, hits |-> {}, workId |-> Null, timestamp |-> Null]]
  /\ UNCHANGED << works, counters, clock, allocated, indexed, ticks, reports, storeError, history >>

\* deleteOldCompletedWorks is called on its own.
DeleteOldCompletedWorksCall(p, connector) ==
  /\ pc[p] = Idle
  /\ pc' = [pc EXCEPT ![p] =
              [op |-> "deleteOldCompletedWorks", step |-> "search", connector |-> connector,
               searchAfter |-> Null, hits |-> {}]]
  /\ UNCHANGED << works, counters, clock, allocated, indexed, ticks, reports, storeError, history >>

\* el.search returns a page with hits: the cursor moves to the last hit.
ScanSearchHits(p) ==
  /\ InScan(p) /\ pc[p].step = "search"
  /\ \E P \in SearchPages(pc[p].connector, pc[p].searchAfter) :
       /\ P # {}
       /\ pc' = [pc EXCEPT ![p].hits = P, ![p].searchAfter = LastSort(P),
                           ![p].step = "redisDeleteWork"]
  /\ UNCHANGED << works, counters, clock, allocated, indexed, ticks, reports, storeError, history >>

ScanSearchEmptyLoops(p) ==
  /\ InScan(p) /\ pc[p].step = "search"
  /\ {} \in SearchPages(pc[p].connector, pc[p].searchAfter)
  /\ UNCHANGED vars

\* el.search returns no hit: the scan ends.  createWork goes on with a new
\* job id and the job's creation time.
ScanSearchEmpty(p) ==
  /\ InScan(p) /\ pc[p].step = "search"
  /\ {} \in SearchPages(pc[p].connector, pc[p].searchAfter)
  /\ IF pc[p].op = "createWork"
       THEN LET id == generateWorkId
            IN
                /\ allocated' = allocated \cup {id}
                /\ pc' = [pc EXCEPT ![p].workId = id, ![p].timestamp = now,
                                    ![p].step = "redisCreateWork"]
       ELSE /\ pc' = [pc EXCEPT ![p] = Idle]
            /\ UNCHANGED allocated
  /\ UNCHANGED << works, counters, clock, indexed, ticks, reports, storeError, history >>

\* redisDeleteWork(ids): the counters of the page.
ScanRedisDelete(p) ==
  /\ InScan(p) /\ pc[p].step = "redisDeleteWork"
  /\ counters' = redisDeleteWork(pc[p].hits)
  /\ pc' = [pc EXCEPT ![p].step = "elDeleteInstanceIds"]
  /\ UNCHANGED << works, clock, allocated, indexed, ticks, reports, storeError, history >>

\* elDeleteInstanceIds(works): the job records of the page.
ScanElDelete(p) ==
  /\ InScan(p) /\ pc[p].step = "elDeleteInstanceIds"
  /\ works' = elDeleteInstanceIds(pc[p].hits)
  /\ pc' = [pc EXCEPT ![p].step = "search", ![p].hits = {}]
  /\ UNCHANGED << counters, clock, allocated, indexed, ticks, reports, storeError, history >>

(***************************************************************************)
(* createWork, after the scan.                                             *)
(***************************************************************************)
\* The job record createWork inserts.
NewWorkWaiting(workId, timestamp, user, connector, sourceId, receivedTime) ==
  [ internal_id |-> workId,
    timestamp |-> timestamp,
    name |-> "f.csv",
    event_type |-> connector.connector_type,
    event_source_id |-> sourceId,
    user_id |-> user,
    connector_id |-> connector.internal_id,
    status |-> "wait",
    received_time |-> receivedTime,
    processed_time |-> Null,
    completed_time |-> Null,
    completed_number |-> 0,
    messages |-> << >>,
    errors |-> << >> ]

NewWorkNoReceived(workId, timestamp, user, connector, sourceId, receivedTime) ==
  [ internal_id |-> workId,
    timestamp |-> timestamp,
    name |-> "f.csv",
    event_type |-> connector.connector_type,
    event_source_id |-> sourceId,
    user_id |-> user,
    connector_id |-> connector.internal_id,
    status |-> IF receivedTime # Null THEN "progress" ELSE "wait",
    received_time |-> Null,
    processed_time |-> Null,
    completed_time |-> Null,
    completed_number |-> 0,
    messages |-> << >>,
    errors |-> << >> ]

NewWork(workId, timestamp, user, connector, sourceId, receivedTime) ==
  [ internal_id |-> workId,
    timestamp |-> timestamp,
    name |-> "f.csv",
    event_type |-> connector.connector_type,
    event_source_id |-> sourceId,
    user_id |-> user,
    connector_id |-> connector.internal_id,
    status |-> IF receivedTime # Null THEN "progress" ELSE "wait",
    received_time |-> receivedTime,
    processed_time |-> Null,
    completed_time |-> Null,
    completed_number |-> 0,
    messages |-> << >>,
    errors |-> << >> ]

\* The counter record createWork writes.
workTracing == [import_expected_number |-> 0, import_processed_number |-> 0]

\* redisCreateWork(workTracing)
CreateWorkRedis(p) ==
  /\ pc[p].op = "createWork" /\ pc[p].step = "redisCreateWork"
  /\ counters' = [counters EXCEPT ![pc[p].workId] = workTracing]
  /\ pc' = [pc EXCEPT ![p].step = "elIndex"]
  /\ UNCHANGED << works, clock, allocated, indexed, ticks, reports, storeError, history >>

\* elIndex(INDEX_HISTORY, work)
CreateWorkIndex(p) ==
  /\ pc[p].op = "createWork" /\ pc[p].step = "elIndex"
  /\ works' = [works EXCEPT ![pc[p].workId] =
                 NewWork(pc[p].workId, pc[p].timestamp, pc[p].user, pc[p].connector,
                         pc[p].sourceId, pc[p].receivedTime)]
  /\ indexed' = indexed \cup {pc[p].workId}
  /\ pc' = [pc EXCEPT ![p].step = "loadWorkById"]
  /\ UNCHANGED << counters, clock, allocated, ticks, reports, storeError, history >>

\* return loadWorkById(workId)
CreateWorkReturn(p) ==
  /\ pc[p].op = "createWork" /\ pc[p].step = "loadWorkById"
  /\ pc' = [pc EXCEPT ![p] = Idle]
  /\ UNCHANGED << works, counters, clock, allocated, indexed, ticks, reports, storeError, history >>

(***************************************************************************)
(* The counter store.                                                      *)
(***************************************************************************)
\* redisUpdateWorkFigures(workId): one atomic increment of the processed
\* number that reports whether it now equals the expected number.
redisUpdateWorkFigures(c) ==
  LET pn == c.import_processed_number + 1
  IN  [ counter |-> [c EXCEPT !.import_processed_number = pn],
        isComplete |-> pn = c.import_expected_number,
        total |-> pn ]

isWorkCompletedNonEmpty(c) ==
  [ isComplete |-> /\ c.import_expected_number > 0
                   /\ c.import_processed_number = c.import_expected_number,
    total |-> c.import_processed_number ]

\* isWorkCompleted(workId): a read of the counter record.  The store holds
\* the numbers as decimal strings; parseInt gives back the numbers.
isWorkCompleted(c) ==
  [ isComplete |-> c.import_processed_number = c.import_expected_number,
    total |-> c.import_processed_number ]

\* The producers of sub-items register one more expected sub-item.
UpdateExpectation(id) ==
  /\ id \in indexed
  /\ HasCounter(id)
  /\ counters[id].import_expected_number < MaxExpected
  /\ counters' = [counters EXCEPT ![id].import_expected_number = @ + 1]
  /\ enMoved' = [enMoved EXCEPT ![id] = @ \/ counters[id].import_processed_number > 0]
  /\ UNCHANGED << works, clock, pc, allocated, indexed, ticks, reports, storeError,
                  finalWrites, actionFinal, appends >>

(***************************************************************************)
(* The update scripts of the work store: each is applied to one record in *)
(* one atomic step.                                                        *)
(***************************************************************************)
\* ctx._source.<log>.add(entry)
LogAddOverwrite(log, entry) == << entry >>

LogAddFront(log, entry) == << entry >> \o log

LogAdd(log, entry) == Append(log, entry)

\* The script of reportActionImport.
ReportActionScriptNoCount(w, isComplete, total, errorData, timestamp) ==
  LET w1 == IF isComplete
              THEN [w EXCEPT !.status = "complete", !.completed_time = timestamp]
              ELSE w
  IN  IF errorData # NoErrorData
        THEN [w1 EXCEPT !.errors = LogAdd(@, [timestamp |-> timestamp,
                                               message |-> errorData.error,
                                               source |-> errorData.source])]
        ELSE w1

ReportActionScriptAlways(w, isComplete, total, errorData, timestamp) ==
  LET w1 == [w EXCEPT !.status = "complete", !.completed_number = total,
                      !.completed_time = timestamp]
  IN  IF errorData # NoErrorData
        THEN [w1 EXCEPT !.errors = LogAdd(@, [timestamp |-> timestamp,
                                               message |-> errorData.error,
                                               source |-> errorData.source])]
        ELSE w1

ReportActionScriptNoSource(w, isComplete, total, errorData, timestamp) ==
  LET w1 == IF isComplete
              THEN [w EXCEPT !.status = "complete", !.completed_number = total,
                             !.completed_time = timestamp]
              ELSE w
  IN  IF errorData # NoErrorData
        THEN [w1 EXCEPT !.errors = LogAdd(@, [timestamp |-> timestamp,
                                               message |-> errorData.error])]
        ELSE w1

ReportActionScript(w, isComplete, total, errorData, timestamp) ==
  LET w1 == IF isComplete
              THEN [w EXCEPT !.status = "complete", !.completed_number = total,
                             !.completed_time = timestamp]
              ELSE w
  IN  IF errorData # NoErrorData
        THEN [w1 EXCEPT !.errors = LogAdd(@, [timestamp |-> timestamp,
                                               message |-> errorData.error,
                                               source |-> errorData.source])]
        ELSE w1

\* The script of updateReceivedTime.
ReceivedScriptStamped(w, received_time, message) ==
  LET w1 == [w EXCEPT !.status = "progress", !.received_time = received_time,
                      !.timestamp = received_time]
  IN  IF isNotEmptyField(message)
        THEN [w1 EXCEPT !.messages = LogAdd(@, [timestamp |-> received_time,
                                                 message |-> message])]
        ELSE w1

ReceivedScriptReset(w, received_time, message) ==
  LET w1 == [w EXCEPT !.status = "progress", !.received_time = received_time,
                      !.completed_time = Null]
  IN  IF isNotEmptyField(message)
        THEN [w1 EXCEPT !.messages = LogAdd(@, [timestamp |-> received_time,
                                                 message |-> message])]
        ELSE w1

ReceivedScript(w, received_time, message) ==
  LET w1 == [w EXCEPT !.status = "progress", !.received_time = received_time]
  IN  IF isNotEmptyField(message)
        THEN [w1 EXCEPT !.messages = LogAdd(@, [timestamp |-> received_time,
                                                 message |-> message])]
        ELSE w1

\* The script of updateProcessedTime.
ProcessedScriptMessagesOnly(w, processed_time, isComplete, total, message, inError) ==
  LET w1 == [w EXCEPT !.processed_time = processed_time]
      w2 == IF isComplete
              THEN [w1 EXCEPT !.status = "complete", !.completed_number = total,
                              !.completed_time = processed_time]
              ELSE w1
      entry == [timestamp |-> processed_time, message |-> message]
  IN  IF isNotEmptyField(message)
        THEN [w2 EXCEPT !.messages = LogAdd(@, entry)]
        ELSE w2

ProcessedScript(w, processed_time, isComplete, total, message, inError) ==
  LET w1 == [w EXCEPT !.processed_time = processed_time]
      w2 == IF isComplete
              THEN [w1 EXCEPT !.status = "complete", !.completed_number = total,
                              !.completed_time = processed_time]
              ELSE w1
      entry == [timestamp |-> processed_time, message |-> message]
  IN  IF isNotEmptyField(message)
        THEN IF inError THEN [w2 EXCEPT !.errors = LogAdd(@, entry)]
                        ELSE [w2 EXCEPT !.messages = LogAdd(@, entry)]
        ELSE w2

(***************************************************************************)
(* reportActionImport(user, workId, errorData)                             *)
(***************************************************************************)
ReportActionCallErrorsOnly(p, id, errorData) ==
  /\ pc[p] = Idle
  /\ id \in indexed
  /\ reports < MaxReports
  /\ reports' = reports + 1
  /\ IF HasCounter(id)
       THEN LET r == redisUpdateWorkFigures(counters[id])
            IN  /\ counters' = [counters EXCEPT ![id] = r.counter]
                /\ pc' = [pc EXCEPT ![p] =
                            IF errorData # NoErrorData
                              THEN [op |-> "reportActionImport", step |-> "elUpdate",
                                    workId |-> id, errorData |-> errorData,
                                    timestamp |-> now, isComplete |-> r.isComplete,
                                    total |-> r.total]
                              ELSE Idle]
                /\ UNCHANGED storeError
       ELSE /\ storeError' = TRUE
            /\ UNCHANGED << counters, pc >>
  /\ UNCHANGED << works, clock, allocated, indexed, ticks, history >>

ReportActionCallAlways(p, id, errorData) ==
  /\ pc[p] = Idle
  /\ id \in indexed
  /\ reports < MaxReports
  /\ reports' = reports + 1
  /\ IF HasCounter(id)
       THEN LET r == redisUpdateWorkFigures(counters[id])
            IN  /\ counters' = [counters EXCEPT ![id] = r.counter]
                /\ pc' = [pc EXCEPT ![p] =
                            [op |-> "reportActionImport", step |-> "elUpdate",
                             workId |-> id, errorData |-> errorData,
                             timestamp |-> now, isComplete |-> r.isComplete,
                             total |-> r.total]]
                /\ UNCHANGED storeError
       ELSE /\ storeError' = TRUE
            /\ UNCHANGED << counters, pc >>
  /\ UNCHANGED << works, clock, allocated, indexed, ticks, history >>

\* The call reads now() and increments the counter.  Without completion and
\* without error data it returns at once.
ReportActionCall(p, id, errorData) ==
  /\ pc[p] = Idle
  /\ id \in indexed
  /\ reports < MaxReports
  /\ reports' = reports + 1
  /\ IF HasCounter(id)
       THEN LET r == redisUpdateWorkFigures(counters[id])
            IN  /\ counters' = [counters EXCEPT ![id] = r.counter]
                /\ pc' = [pc EXCEPT ![p] =
                            IF r.isComplete \/ errorData # NoErrorData
                              THEN [op |-> "reportActionImport", step |-> "elUpdate",
                                    workId |-> id, errorData |-> errorData,
                                    timestamp |-> now, isComplete |-> r.isComplete,
                                    total |-> r.total]
                              ELSE Idle]
                /\ UNCHANGED storeError
       ELSE /\ storeError' = TRUE
            /\ UNCHANGED << counters, pc >>
  /\ UNCHANGED << works, clock, allocated, indexed, ticks, history >>

\* elUpdate with the script of the call.
ReportActionUpdate(p) ==
  /\ pc[p].op = "reportActionImport" /\ pc[p].step = "elUpdate"
  /\ LET id == pc[p].workId
     IN  IF Exists(id)
           THEN /\ works' = [works EXCEPT ![id] =
                               ReportActionScript(@, pc[p].isComplete, pc[p].total,
                                                  pc[p].errorData, pc[p].timestamp)]
                /\ finalWrites' = [finalWrites EXCEPT ![id] =
                                     IF pc[p].isComplete THEN Inc2(@) ELSE @]
                /\ actionFinal' = [actionFinal EXCEPT ![id] =
                                     IF pc[p].isComplete THEN Inc2(@) ELSE @]
                /\ appends' = [appends EXCEPT ![id] =
                                 IF pc[p].errorData # NoErrorData THEN @ + 1 ELSE @]
                /\ UNCHANGED storeError
           ELSE /\ storeError' = TRUE
                /\ UNCHANGED << works, finalWrites, actionFinal, appends >>
  /\ pc' = [pc EXCEPT ![p] = Idle]
  /\ UNCHANGED << counters, clock, allocated, indexed, ticks, reports, enMoved >>

(***************************************************************************)
(* updateReceivedTime(user, workId, message)                               *)
(***************************************************************************)
UpdateReceivedTime(p, id, message) ==
  /\ pc[p] = Idle
  /\ id \in indexed
  /\ reports < MaxReports
  /\ reports' = reports + 1
  /\ IF Exists(id)
       THEN /\ works' = [works EXCEPT ![id] = ReceivedScript(@, now, message)]
            /\ appends' = [appends EXCEPT ![id] =
                             IF isNotEmptyField(message) THEN @ + 1 ELSE @]
            /\ UNCHANGED storeError
       ELSE /\ storeError' = TRUE
            /\ UNCHANGED << works, appends >>
  /\ UNCHANGED << counters, clock, pc, allocated, indexed, ticks,
                  finalWrites, actionFinal, enMoved >>

(***************************************************************************)
(* updateProcessedTime(user, workId, message, inError)                     *)
(***************************************************************************)
UpdateProcessedTimeCallCounting(p, id, message, inError) ==
  /\ pc[p] = Idle
  /\ id \in indexed
  /\ reports < MaxReports
  /\ reports' = reports + 1
  /\ IF HasCounter(id)
       THEN LET r == redisUpdateWorkFigures(counters[id])
            IN  /\ counters' = [counters EXCEPT ![id] = r.counter]
                /\ pc' = [pc EXCEPT ![p] =
                            [op |-> "updateProcessedTime", step |-> "elUpdate",
                             workId |-> id, message |-> message, inError |-> inError,
                             processed_time |-> now, isComplete |-> r.isComplete,
                             total |-> r.total]]
                /\ UNCHANGED storeError
       ELSE /\ storeError' = TRUE
            /\ UNCHANGED << counters, pc >>
  /\ UNCHANGED << works, clock, allocated, indexed, ticks, history >>

\* The call reads now() and then the counter record.
UpdateProcessedTimeCall(p, id, message, inError) ==
  /\ pc[p] = Idle
  /\ id \in indexed
  /\ reports < MaxReports
  /\ reports' = reports + 1
  /\ IF HasCounter(id)
       THEN LET r == isWorkCompleted(counters[id])
            IN  /\ pc' = [pc EXCEPT ![p] =
                            [op |-> "updateProcessedTime", step |-> "elUpdate",
                             workId |-> id, message |-> message, inError |-> inError,
                             processed_time |-> now, isComplete |-> r.isComplete,
                             total |-> r.total]]
                /\ UNCHANGED storeError
       ELSE /\ storeError' = TRUE
            /\ UNCHANGED pc
  /\ UNCHANGED << works, counters, clock, allocated, indexed, ticks, history >>

\* elUpdate with the script of the call.
UpdateProcessedTimeUpdate(p) ==
  /\ pc[p].op = "updateProcessedTime" /\ pc[p].step = "elUpdate"
  /\ LET id == pc[p].workId
     IN  IF Exists(id)
           THEN /\ works' = [works EXCEPT ![id] =
                               ProcessedScript(@, pc[p].processed_time, pc[p].isComplete,
                                               pc[p].total, pc[p].message, pc[p].inError)]
                /\ finalWrites' = [finalWrites EXCEPT ![id] =
                                     IF pc[p].isComplete THEN Inc2(@) ELSE @]
                /\ appends' = [appends EXCEPT ![id] =
                                 IF isNotEmptyField(pc[p].message) THEN @ + 1 ELSE @]
                /\ UNCHANGED storeError
           ELSE /\ storeError' = TRUE
                /\ UNCHANGED << works, finalWrites, appends >>
  /\ pc' = [pc EXCEPT ![p] = Idle]
  /\ UNCHANGED << counters, clock, allocated, indexed, ticks, reports, actionFinal, enMoved >>

(***************************************************************************)
(* deleteWork(workId)                                                      *)
(***************************************************************************)
\* loadWorkById: the record of the job, or an object with the id only.
loadWorkById(id) == IF Exists(id) THEN {works[id].internal_id} ELSE {}

DeleteWorkCall(p, id) ==
  /\ pc[p] = Idle
  /\ pc' = [pc EXCEPT ![p] = [op |-> "deleteWork", step |-> "elDeleteInstanceIds",
                              workId |-> id, work |-> loadWorkById(id)]]
  /\ UNCHANGED << works, counters, clock, allocated, indexed, ticks, reports, storeError, history >>

\* deleteWorkRaw: elDeleteInstanceIds([work])
DeleteWorkElStrict(p) ==
  /\ pc[p].op = "deleteWork" /\ pc[p].step = "elDeleteInstanceIds"
  /\ works' = elDeleteInstanceIds(pc[p].work)
  /\ IF pc[p].work = {}
       THEN pc' = [pc EXCEPT ![p] = Idle] /\ storeError' = TRUE
       ELSE pc' = [pc EXCEPT ![p].step = "redisDeleteWork"] /\ UNCHANGED storeError
  /\ UNCHANGED << counters, clock, allocated, indexed, ticks, reports, history >>

DeleteWorkEl(p) ==
  /\ pc[p].op = "deleteWork" /\ pc[p].step = "elDeleteInstanceIds"
  /\ works' = elDeleteInstanceIds(pc[p].work)
  /\ pc' = [pc EXCEPT ![p].step = "redisDeleteWork"]
  /\ UNCHANGED << counters, clock, allocated, indexed, ticks, reports, storeError, history >>

\* deleteWorkRaw: redisDeleteWork(work.internal_id)
DeleteWorkRedisSkipped(p) ==
  /\ pc[p].op = "deleteWork" /\ pc[p].step = "redisDeleteWork"
  /\ pc' = [pc EXCEPT ![p] = Idle]
  /\ UNCHANGED << works, counters, clock, allocated, indexed, ticks, reports, storeError, history >>

DeleteWorkRedis(p) ==
  /\ pc[p].op = "deleteWork" /\ pc[p].step = "redisDeleteWork"
  /\ counters' = redisDeleteWork(pc[p].work)
  /\ pc' = [pc EXCEPT ![p] = Idle]
  /\ UNCHANGED << works, clock, allocated, indexed, ticks, reports, storeError, history >>

(***************************************************************************)
(* deleteWorkForFile(fileId)                                               *)
(***************************************************************************)
\* The jobs of a source.
OfSource(sourceId) == { id \in WorkIds : Exists(id) /\ works[id].event_source_id = sourceId }

\* worksForSource(sourceId, {first, type}): the `first` most recent jobs of
\* the source, of the given event type when there is one.
worksForSource(sourceId, first, type) ==
  LET cands == { id \in OfSource(sourceId) : type # NoType => works[id].event_type = type }
      key == [id \in cands |-> works[id].timestamp]
  IN  TopPages(cands, key, first)

Settled(b) == b \in {"done", "failed"}

\* The call lists the jobs and starts one deleteWorkRaw per listed job.
DeleteWorkForFileCall(p, fileId) ==
  /\ pc[p] = Idle
  /\ \E P \in worksForSource(fileId, firstDefault, NoType) :
       pc' = [pc EXCEPT ![p] =
                IF P = {} THEN Idle
                ELSE [op |-> "deleteWorkForFile", fileId |-> fileId,
                      before |-> OfSource(fileId),
                      branch |-> [id \in P |-> "elDeleteInstanceIds"]]]
  /\ UNCHANGED << works, counters, clock, allocated, indexed, ticks, reports, storeError, history >>

\* One deleteWorkRaw: elDeleteInstanceIds([work])
DeleteWorkForFileEl(p, id) ==
  /\ pc[p].op = "deleteWorkForFile"
  /\ id \in DOMAIN pc[p].branch
  /\ pc[p].branch[id] = "elDeleteInstanceIds"
  /\ works' = elDeleteInstanceIds({id})
  /\ pc' = [pc EXCEPT ![p].branch[id] = "redisDeleteWork"]
  /\ UNCHANGED << counters, clock, allocated, indexed, ticks, reports, storeError, history >>

\* One deleteWorkRaw: redisDeleteWork(work.internal_id).  The call returns
\* when every deleteWorkRaw has settled.
DeleteWorkForFileRedis(p, id) ==
  /\ pc[p].op = "deleteWorkForFile"
  /\ id \in DOMAIN pc[p].branch
  /\ pc[p].branch[id] = "redisDeleteWork"
  /\ counters' = redisDeleteWork({id})
  /\ pc' = [pc EXCEPT ![p] =
              IF \A o \in DOMAIN pc[p].branch \ {id} : Settled(pc[p].branch[o])
                THEN Idle
                ELSE [pc[p] EXCEPT !.branch[id] = "done"]]
  /\ UNCHANGED << works, clock, allocated, indexed, ticks, reports, storeError, history >>

(***************************************************************************)
(* loadExportWorksAsProgressFiles(sourceId)                                *)
(***************************************************************************)
\* workToExportFile(work).  lastModified is moment(work.updated_at), the
\* current instant for a record without updated_at.
workToExportFile(work) ==
  [ id |-> work.internal_id,
    name |-> IF work.name = "" THEN "Unknown" ELSE work.name,
    size |-> 0,
    lastModified |-> now,
    uploadStatus |-> work.status,
    metaData |-> [messages |-> work.messages, errors |-> work.errors] ]

\* R.filter((w) => w.status !== 'complete' || w.errors.length > 0, works)
filterSuccessCompletedAll(listed) == listed

filterSuccessCompleted(listed) ==
  { id \in listed : works[id].status # "complete" \/ Len(works[id].errors) > 0 }

\* The call lists the export jobs of the source and maps the retained ones.
LoadExportWorksAsProgressFiles(p, sourceId) ==
  /\ pc[p] = Idle
  /\ \E P \in worksForSource(sourceId, exportFirst, CONNECTOR_INTERNAL_EXPORT_FILE) :
       pc' = [pc EXCEPT ![p] =
                [op |-> "loadExportWorksAsProgressFiles", step |-> "return",
                 sourceId |-> sourceId, listed |-> P,
                 files |-> { workToExportFile(works[id]) : id \in filterSuccessCompleted(P) }]]
  /\ UNCHANGED << works, counters, clock, allocated, indexed, ticks, reports, storeError, history >>

\* The descriptors are returned to the caller.
LoadExportWorksReturn(p) ==
  /\ pc[p].op = "loadExportWorksAsProgressFiles"
  /\ pc' = [pc EXCEPT ![p] = Idle]
  /\ UNCHANGED << works, counters, clock, allocated, indexed, ticks, reports, storeError, history >>

(***************************************************************************)
(* A store call fails: the handler throws and does nothing more.  A       *)
(* failing deleteWorkRaw of deleteWorkForFile leaves the others running.  *)
(***************************************************************************)
StoreCallFailsUndo(p) ==
  /\ pc[p].op \notin {"idle", "deleteWorkForFile"}
  /\ pc' = [pc EXCEPT ![p] = Idle]
  /\ storeError' = TRUE
  /\ counters' = IF pc[p].op = "reportActionImport" /\ HasCounter(pc[p].workId)
                   THEN [counters EXCEPT ![pc[p].workId].import_processed_number = @ - 1]
                   ELSE counters
  /\ UNCHANGED << works, clock, allocated, indexed, ticks, reports, history >>

StoreCallFailsRollback(p) ==
  /\ pc[p].op \notin {"idle", "deleteWorkForFile"}
  /\ pc' = [pc EXCEPT ![p] = Idle]
  /\ storeError' = TRUE
  /\ counters' = IF pc[p].op = "createWork" /\ pc[p].step = "elIndex"
                   THEN redisDeleteWork({pc[p].workId})
                   ELSE counters
  /\ UNCHANGED << works, clock, allocated, indexed, ticks, reports, history >>

StoreCallFails(p) ==
  /\ pc[p].op \notin {"idle", "deleteWorkForFile"}
  /\ pc' = [pc EXCEPT ![p] = Idle]
  /\ storeError' = TRUE
  /\ UNCHANGED << works, counters, clock, allocated, indexed, ticks, reports, history >>

DeleteWorkRawFails(p, id) ==
  /\ pc[p].op = "deleteWorkForFile"
  /\ id \in DOMAIN pc[p].branch
  /\ ~ Settled(pc[p].branch[id])
  /\ pc' = [pc EXCEPT ![p] =
              IF \A o \in DOMAIN pc[p].branch \ {id} : Settled(pc[p].branch[o])
                THEN Idle
                ELSE [pc[p] EXCEPT !.branch[id] = "failed"]]
  /\ storeError' = TRUE
  /\ UNCHANGED << works, counters, clock, allocated, indexed, ticks, reports, history >>

(***************************************************************************)
(* The specification: the life of a job from the empty stores.  The       *)
(* platform creates one job of the enrichment connector and runs the      *)
(* retention scan; the platform and a worker report on the job; the       *)
(* producers register its expected sub-items.                              *)
(***************************************************************************)
ScanSteps(p) ==
  \/ ScanSearchHits(p)
  \/ ScanSearchEmpty(p)
  \/ ScanRedisDelete(p)
  \/ ScanElDelete(p)

CreateSteps(p) ==
  \/ CreateWorkRedis(p)
  \/ CreateWorkIndex(p)
  \/ CreateWorkReturn(p)

Reporting(p, id) ==
  \/ \E e \in ErrorDatas \cup {NoErrorData} : ReportActionCall(p, id, e)
  \/ ReportActionUpdate(p)
  \/ \E m \in Messages : UpdateReceivedTime(p, id, m)
  \/ \E m \in Messages, e \in BOOLEAN : UpdateProcessedTimeCall(p, id, m, e)
  \/ UpdateProcessedTimeUpdate(p)

Next ==
  \/ Tick
  \/ \E p \in Platform, u \in Users, c \in Enrichment, rt \in {Null, clock} :
       /\ allocated = {}
       /\ CreateWorkCall(p, u, c, "src1", rt)
  \/ \E p \in Platform, c \in Enrichment : DeleteOldCompletedWorksCall(p, c)
  \/ \E p \in Procs : ScanSteps(p)
  \/ \E p \in Procs : CreateSteps(p)
  \/ \E id \in WorkIds : UpdateExpectation(id)
  \/ \E p \in Procs, id \in WorkIds : Reporting(p, id)

Spec == Init /\ [][Next]_vars

(***************************************************************************)
(* The specification of the stores under creation and deletion.  MaxSeeded *)
(* jobs were created earlier; the stores still hold the first k of them,  *)
(* some completed by updateProcessedTime (their counters still at 0 / 0), *)
(* and the others have been deleted since.  The platform creates jobs,    *)
(* scanning first; the other caller runs the scan on its own; both        *)
(* delete jobs.                                                            *)
(***************************************************************************)
\* Today: two days after the longer retention period has passed.
StoreClock == TicksPerDay * (DefaultKeepDays + 2)

\* Instants at which an earlier job was completed: before both retention
\* periods, and before the shorter one only.
SeedInstants == { TicksPerDay, StoreClock - EnrichmentKeepDays * TicksPerDay }

\* An earlier job of source src1: created at an instant and left waiting, or
\* created and completed at that instant by updateProcessedTime.
SeedWork(id, connector, sourceId, t, complete) ==
  LET w == NewWork(id, t, "u", connector, sourceId, Null)
  IN  IF complete THEN ProcessedScript(w, t, TRUE, 0, "", FALSE) ELSE w

SeedWorks(id) ==
  { SeedWork(id, c, "src1", t, TRUE) : c \in Connectors, t \in SeedInstants }
  \cup { SeedWork(id, c, "src1", StoreClock, FALSE) : c \in Enrichment }

InitStore ==
  /\ \E k \in 0 .. MaxSeeded :
       /\ works \in [WorkIds -> UNION { SeedWorks(id) : id \in WorkIds } \cup {NoWork}]
       /\ \A id \in WorkIds : IF id <= k THEN works[id] \in SeedWorks(id)
                                          ELSE works[id] = NoWork
       /\ counters = [id \in WorkIds |-> IF id <= k THEN workTracing ELSE NoCounter]
       /\ allocated = 1 .. MaxSeeded
       /\ indexed = 1 .. MaxSeeded
  /\ clock = StoreClock
  /\ pc = [p \in Procs |-> Idle]
  /\ ticks = 0
  /\ reports = 0
  /\ storeError = FALSE
  /\ finalWrites = [id \in WorkIds |-> IF works[id] # NoWork /\ works[id].status = "complete"
                                         THEN 1 ELSE 0]
  /\ actionFinal = [id \in WorkIds |-> 0]
  /\ enMoved = [id \in WorkIds |-> FALSE]
  /\ appends = [id \in WorkIds |-> 0]

NextStore ==
  \/ \E p \in Platform, u \in Users, c \in Connectors, s \in Sources :
       CreateWorkCall(p, u, c, s, Null)
  \/ \E p \in Procs \ Platform, c \in Connectors : DeleteOldCompletedWorksCall(p, c)
  \/ \E p \in Procs : ScanSteps(p)
  \/ \E p \in Procs : CreateSteps(p)
  \/ \E p \in Procs, id \in WorkIds : DeleteWorkCall(p, id)
  \/ \E p \in Procs : DeleteWorkEl(p)
  \/ \E p \in Procs : DeleteWorkRedis(p)
  \/ \E p \in Procs, s \in Sources : DeleteWorkForFileCall(p, s)
  \/ \E p \in Procs, id \in WorkIds : DeleteWorkForFileEl(p, id)
  \/ \E p \in Procs, id \in WorkIds : DeleteWorkForFileRedis(p, id)

SpecStore == InitStore /\ [][NextStore]_vars

(***************************************************************************)
(* The specification of the reports on one job.  The job was created      *)
(* earlier, for either connector, and is as createWork left it or as an   *)
(* updateProcessedTime call at its creation left it; the producers have   *)
(* registered some expected sub-items and none is processed yet.  One     *)
(* instant later both callers report on the job; the platform also lists  *)
(* the export jobs.                                                        *)
(***************************************************************************)
ReportSeeds ==
  { SeedWork(1, c, "src1", TicksPerDay, complete) : c \in Connectors, complete \in BOOLEAN }

InitReport ==
  /\ \E w \in ReportSeeds : works = [id \in WorkIds |-> IF id = 1 THEN w ELSE NoWork]
  /\ \E n \in 0 .. MaxReports :
       counters = [id \in WorkIds |->
                     IF id = 1 THEN [workTracing EXCEPT !.import_expected_number = n]
                               ELSE NoCounter]
  /\ allocated = {1}
  /\ indexed = {1}
  /\ clock = TicksPerDay + 1
  /\ pc = [p \in Procs |-> Idle]
  /\ ticks = 0
  /\ reports = 0
  /\ storeError = FALSE
  /\ finalWrites = [id \in WorkIds |-> IF works[id] # NoWork /\ works[id].status = "complete"
                                         THEN 1 ELSE 0]
  /\ actionFinal = [id \in WorkIds |-> 0]
  /\ enMoved = [id \in WorkIds |-> FALSE]
  /\ appends = [id \in WorkIds |-> 0]

NextReport ==
  \/ \E id \in WorkIds : UpdateExpectation(id)
  \/ \E p \in Procs, id \in WorkIds : Reporting(p, id)
  \/ \E p \in Platform, s \in Sources : LoadExportWorksAsProgressFiles(p, s)
  \/ \E p \in Procs : LoadExportWorksReturn(p)

SpecReport == InitReport /\ [][NextReport]_vars

\* A reportActionImport call awaits its elUpdate and the store answers: a
\* call that has its update to make makes it.
SpecReportLive == SpecReport /\ \A p \in Procs : WF_vars(ReportActionUpdate(p))

(***************************************************************************)
(* The specification of the retention scan run alone.  The stores hold    *)
(* earlier jobs of both connectors, waiting or completed around the two   *)
(* retention horizons, some with a logged error; the platform is the only *)
(* caller: it runs the scan on its own and creates jobs, one call at a    *)
(* time.                                                                   *)
(***************************************************************************)
\* Instants at which an earlier job was completed: at the start and at the
\* end of the day a retention period before today, and yesterday.
ScanInstants ==
  { StoreClock - d * TicksPerDay + o : d \in {EnrichmentKeepDays, DefaultKeepDays},
                                       o \in {0, TicksPerDay - 1} }
  \cup { StoreClock - TicksPerDay }

\* An earlier job completed at an instant by an updateProcessedTime call
\* that logged an error.
SeedWorkInError(id, connector, sourceId, t) ==
  ProcessedScript(NewWork(id, t, "u", connector, sourceId, Null), t, TRUE, 0, "m", TRUE)

\* The kinds of earlier jobs: connector, instant and state.
ScanSeedKinds ==
  (Connectors \X ScanInstants \X {"complete", "error"})
  \cup (Connectors \X {StoreClock} \X {"wait"})

ScanSeed(id, kind) ==
  IF kind[3] = "error"
    THEN SeedWorkInError(id, kind[1], "src1", kind[2])
    ELSE SeedWork(id, kind[1], "src1", kind[2], kind[3] = "complete")

InitScan ==
  /\ \E k \in 0 .. MaxSeeded :
       /\ \E kinds \in [1 .. k -> ScanSeedKinds] :
            works = [id \in WorkIds |-> IF id <= k THEN ScanSeed(id, kinds[id]) ELSE NoWork]
       /\ counters = [id \in WorkIds |-> IF id <= k THEN workTracing ELSE NoCounter]
       /\ allocated = 1 .. MaxSeeded
       /\ indexed = 1 .. MaxSeeded
  /\ clock = StoreClock
  /\ pc = [p \in Procs |-> Idle]
  /\ ticks = 0
  /\ reports = 0
  /\ storeError = FALSE
  /\ finalWrites = [id \in WorkIds |-> IF works[id] # NoWork /\ works[id].status = "complete"
                                         THEN 1 ELSE 0]
  /\ actionFinal = [id \in WorkIds |-> 0]
  /\ enMoved = [id \in WorkIds |-> FALSE]
  /\ appends = [id \in WorkIds |-> IF works[id] # NoWork THEN Len(works[id].errors) ELSE 0]

NextScan ==
  \/ \E p \in Platform, u \in Users, c \in Connectors : CreateWorkCall(p, u, c, "src1", Null)
  \/ \E p \in Platform, c \in Connectors : DeleteOldCompletedWorksCall(p, c)
  \/ \E p \in Platform : ScanSteps(p)
  \/ \E p \in Platform : CreateSteps(p)

SpecScan == InitScan /\ [][NextScan]_vars

\* The scan awaits each of its store calls in turn and every store call is
\* answered: a scan that has a step to take takes it.
SpecScanLive == SpecScan /\ \A p \in Platform : WF_vars(ScanSteps(p))

(***************************************************************************)
(* The specification of the calls whose store calls may fail.  From the   *)
(* empty stores the platform creates jobs of the enrichment connector     *)
(* until one is inserted, the producers register its expected sub-items,  *)
(* both callers report its processed sub-items with reportActionImport,   *)
(* and any store call of a handler may be rejected.  No job is created    *)
(* once one is in the store, so the scan of createWork finds no hit.      *)
(***************************************************************************)
NextFail ==
  \/ \E p \in Platform, u \in Users, c \in Enrichment :
       /\ indexed = {}
       /\ CreateWorkCall(p, u, c, "src1", Null)
  \/ \E p \in Procs : ScanSearchEmpty(p)
  \/ \E p \in Procs : CreateSteps(p)
  \/ \E id \in WorkIds : UpdateExpectation(id)
  \/ \E p \in Procs, id \in WorkIds, e \in ErrorDatas \cup {NoErrorData} :
       ReportActionCall(p, id, e)
  \/ \E p \in Procs : ReportActionUpdate(p)
  \/ \E p \in Procs : StoreCallFails(p)

SpecFail == Init /\ [][NextFail]_vars

(***************************************************************************)
(* Properties of the reporting operations, checked under Spec.            *)
(***************************************************************************)
Both(id) == Exists(id) /\ works'[id] # NoWork

\* The elUpdate of a reportActionImport call of p is applied to job id.
ActionUpdates(p, id) ==
  /\ pc[p].op = "reportActionImport"
  /\ pc[p].workId = id
  /\ pc'[p] = Idle
  /\ Both(id)
  /\ works'[id] # works[id]

ActionPending(id) == \E p \in Procs : pc[p].op = "reportActionImport" /\ pc[p].workId = id

Expected(id) == counters[id].import_expected_number
Processed(id) == counters[id].import_processed_number

\* C1: with the expected number of a job fixed at N >= 1 before its first
\* report, the reportActionImport calls finalize the job record exactly once:
\* only the call whose increment reported completion writes status complete,
\* no call did so before it, it writes completed_number = N, and once the
\* processed number has reached N and every call has returned, that write
\* has happened.
C1_FinalizedOnceStep ==
  \A p \in Procs, id \in WorkIds :
    (ActionUpdates(p, id) /\ ~ enMoved[id]) =>
      IF pc[p].isComplete
        THEN /\ actionFinal[id] = 0
             /\ works'[id].status = "complete"
             /\ HasCounter(id) => works'[id].completed_number = Expected(id)
        ELSE /\ works'[id].status = works[id].status
             /\ works'[id].completed_number = works[id].completed_number

C1_FinalizedWhenReached ==
  \A id \in WorkIds :
    ( /\ Exists(id) /\ HasCounter(id)
      /\ ~ enMoved[id] /\ ~ storeError
      /\ Expected(id) >= 1 /\ Processed(id) >= Expected(id)
      /\ ~ ActionPending(id) )
    => actionFinal[id] = 1

C1_ExactlyOnce == [][C1_FinalizedOnceStep]_vars /\ [] C1_FinalizedWhenReached

\* Two reportActionImport calls raced on a job expecting one sub-item: one
\* finalized it, the other is still to write its error entry.
C1_Witness ==
  \E id \in WorkIds :
    /\ Exists(id) /\ HasCounter(id) /\ ~ enMoved[id]
    /\ Expected(id) = 1 /\ Processed(id) = 2
    /\ actionFinal[id] = 1
    /\ works[id].status = "complete" /\ works[id].completed_number = 1
    /\ \E p \in Procs : pc[p].op = "reportActionImport" /\ ~ pc[p].isComplete

Rank(status) == IF status = "wait" THEN 0 ELSE IF status = "progress" THEN 1 ELSE 2

\* C2: the status of a job never regresses: it only moves from wait to
\* progress to complete, and a complete job stays complete until deleted.
C2_StatusNeverRegresses ==
  [][\A id \in WorkIds :
       Both(id) => Rank(works'[id].status) >= Rank(works[id].status)]_vars

\* C3: completed_number is written at most once in the life of a job, and
\* only by a call whose atomic counter increment reported that the processed
\* number equals the expected number.
C3_CompletedCountWrittenOnce ==
  [][\A id \in WorkIds :
       finalWrites'[id] # finalWrites[id] =>
         /\ finalWrites[id] = 0
         /\ \E p \in Procs : ActionUpdates(p, id) /\ pc[p].isComplete]_vars

\* C5: every job record the retention scan removes has status complete at
\* the moment of its removal.
C5_ScanDeletesOnlyComplete ==
  [][\A p \in Procs, id \in WorkIds :
       ( /\ InScan(p) /\ pc[p].step = "elDeleteInstanceIds"
         /\ Exists(id) /\ works'[id] = NoWork )
       => works[id].status = "complete"]_vars

\* C7: concurrent appenders lose no log entry: the messages and errors logs
\* of a job together hold one entry per returned reporting call that carried
\* a non-empty message or error data.
C7_NoLostEntries ==
  \A id \in WorkIds :
    Exists(id) => Len(works[id].messages) + Len(works[id].errors) = appends[id]

\* Two calls on the same job, one with a message and one with an error,
\* have returned.
C7_Witness ==
  \E id \in WorkIds :
    /\ Exists(id) /\ appends[id] = 2
    /\ Len(works[id].messages) = 1 /\ Len(works[id].errors) = 1

\* C8: received_time, processed_time and completed_time are each set at most
\* once, and in that order: processed_time never while received_time is
\* null, completed_time never while processed_time is null.
C8_TimesSetOnceInOrder ==
  [][\A id \in WorkIds :
       Both(id) =>
         /\ works[id].received_time # Null => works'[id].received_time = works[id].received_time
         /\ works[id].processed_time # Null => works'[id].processed_time = works[id].processed_time
         /\ works[id].completed_time # Null => works'[id].completed_time = works[id].completed_time
         /\ works'[id].processed_time # works[id].processed_time => works[id].received_time # Null
         /\ works'[id].completed_time # works[id].completed_time => works'[id].processed_time # Null]_vars

\* C9: the job createWork inserts has a counter record with both numbers 0,
\* empty messages and errors, and status wait without a receivedTime option
\* and progress with one.
C9_CreatedJob ==
  [][\A p \in Procs :
       ( /\ pc[p].op = "createWork" /\ pc[p].step = "elIndex"
         /\ pc'[p].op = "createWork" /\ pc'[p].step = "loadWorkById" )
       => LET id == pc[p].workId
          IN  /\ counters'[id] = [import_expected_number |-> 0, import_processed_number |-> 0]
              /\ works'[id].messages = << >>
              /\ works'[id].errors = << >>
              /\ works'[id].status = IF pc[p].receivedTime # Null THEN "progress" ELSE "wait"
              /\ works'[id].status # "complete"]_vars

\* createWork with a receivedTime option has inserted its job.
C9_Witness ==
  \E p \in Procs :
    /\ pc[p].op = "createWork" /\ pc[p].step = "loadWorkById"
    /\ pc[p].receivedTime # Null
    /\ Exists(pc[p].workId)
    /\ works[pc[p].workId].status = "progress"

\* C10: a reportActionImport call with error data appends exactly one entry
\* {timestamp, message: error, source} to errors, and leaves status,
\* completed_number and completed_time unchanged unless its own counter
\* increment reported completion.
C10_ErrorAppendOnly ==
  [][\A p \in Procs, id \in WorkIds :
       (ActionUpdates(p, id) /\ pc[p].errorData # NoErrorData) =>
         /\ works'[id].errors =
              Append(works[id].errors,
                     [timestamp |-> pc[p].timestamp, message |-> pc[p].errorData.error,
                      source |-> pc[p].errorData.source])
         /\ ~ pc[p].isComplete =>
              /\ works'[id].status = works[id].status
              /\ works'[id].completed_number = works[id].completed_number
              /\ works'[id].completed_time = works[id].completed_time]_vars

\* An error entry was appended to a job that is not complete.
C10_Witness ==
  \E id \in WorkIds :
    /\ Exists(id)
    /\ works[id].status # "complete"
    /\ works[id].errors # << >>
    /\ works[id].errors[1].source = "worker-2"

IsPrefix(a, b) == Len(a) <= Len(b) /\ SubSeq(b, 1, Len(a)) = a

\* C14: as long as a job is not deleted, every step leaves its messages
\* log and its errors log with the log before the step as a prefix: entries
\* are only appended at the end, never removed, reordered or rewritten.
C14_LogsAppendOnly ==
  [][\A id \in WorkIds :
       Both(id) =>
         /\ IsPrefix(works[id].messages, works'[id].messages)
         /\ IsPrefix(works[id].errors, works'[id].errors)]_vars

\* Two messages were appended to a job at different instants, in that order.
C14_Witness ==
  \E id \in WorkIds :
    /\ Exists(id)
    /\ Len(works[id].messages) = 2
    /\ works[id].messages[1].timestamp < works[id].messages[2].timestamp

\* The fields of a job record that tell where the job comes from.
Provenance(w) ==
  << w.internal_id, w.timestamp, w.event_type, w.event_source_id, w.user_id, w.connector_id >>

\* C16: no step on a job that stays in the store changes its internal_id,
\* timestamp, event_type, event_source_id, user_id or connector_id: the
\* reporting operations leave these fields as createWork wrote them.
C16_ProvenanceFrame ==
  [][\A id \in WorkIds :
       Both(id) => Provenance(works'[id]) = Provenance(works[id])]_vars

\* A job was reported received and processed at a later instant than its
\* creation.
C16_Witness ==
  \E id \in WorkIds :
    /\ Exists(id)
    /\ works[id].internal_id = id
    /\ works[id].received_time > works[id].timestamp
    /\ works[id].processed_time > works[id].timestamp

\* createWork of caller p inserts the record of its job.
CreateInserts(p) ==
  /\ pc[p].op = "createWork" /\ pc[p].step = "elIndex"
  /\ pc'[p].op = "createWork" /\ pc'[p].step = "loadWorkById"

\* C21: the job record createWork inserts has received_time,
\* processed_time and completed_time all null, with or without a
\* receivedTime option; only timestamp is set.
C21_CreatedTimesNull ==
  [][\A p \in Procs :
       CreateInserts(p) =>
         LET w == works'[pc[p].workId]
         IN  /\ w.timestamp # Null
             /\ w.received_time = Null
             /\ w.processed_time = Null
             /\ w.completed_time = Null]_vars

\* C21, amended: the job record createWork inserts has timestamp set to the
\* creation instant, received_time equal to the receivedTime option (null
\* without one), and processed_time and completed_time null.
C21_CreatedTimes ==
  [][\A p \in Procs :
       CreateInserts(p) =>
         LET w == works'[pc[p].workId]
         IN  /\ w.timestamp = pc[p].timestamp /\ w.timestamp # Null
             /\ w.received_time = pc[p].receivedTime
             /\ w.processed_time = Null
             /\ w.completed_time = Null]_vars

\* createWork called with a receivedTime option, one clock advance before
\* the end of its scan, has inserted a job received before it was created.
C21_Witness ==
  \E p \in Procs :
    /\ pc[p].op = "createWork" /\ pc[p].step = "loadWorkById"
    /\ Exists(pc[p].workId)
    /\ works[pc[p].workId].received_time # Null
    /\ works[pc[p].workId].received_time < works[pc[p].workId].timestamp
    /\ works[pc[p].workId].processed_time = Null
    /\ works[pc[p].workId].completed_time = Null

(***************************************************************************)
(* Properties of creation and deletion, checked under SpecStore.          *)
(***************************************************************************)
\* A createWork or deletion call in progress is at work on job id.
InWindow(p, id) ==
  \/ InScan(p) /\ id \in pc[p].hits
  \/ pc[p].op = "createWork" /\ pc[p].workId = id
  \/ pc[p].op = "deleteWork" /\ id \in pc[p].work
  \/ /\ pc[p].op = "deleteWorkForFile"
     /\ id \in DOMAIN pc[p].branch
     /\ ~ Settled(pc[p].branch[id])

\* C4: outside the window of a createWork or deletion call in progress on
\* the job, and as long as no store call has failed, a counter record exists
\* for a job id if and only if a job record exists for it.
C4_CounterIffJob ==
  ~ storeError =>
    \A id \in WorkIds :
      (\A p \in Procs : ~ InWindow(p, id)) => (Exists(id) <=> HasCounter(id))

\* A job created since the start has been deleted with its counter, another
\* job is in both stores, and the retention scan is between its two deletes
\* on a third one.
C4_Witness ==
  /\ ~ storeError
  /\ \E id \in indexed :
       /\ id > MaxSeeded
       /\ ~ Exists(id) /\ ~ HasCounter(id)
       /\ \A p \in Procs : ~ InWindow(p, id)
  /\ \E id \in WorkIds :
       Exists(id) /\ HasCounter(id) /\ \A p \in Procs : ~ InWindow(p, id)
  /\ \E p \in Procs, id \in WorkIds : InWindow(p, id) /\ Exists(id) /\ ~ HasCounter(id)

C6_CascadeRemovesAll ==
  [][\A p \in Procs :
       (pc[p].op = "deleteWorkForFile" /\ pc'[p] = Idle) =>
         \A id \in pc[p].before : works'[id] = NoWork /\ counters'[id] = NoCounter]_vars

(***************************************************************************)
(* Properties of the reports on one job, checked under SpecReport.        *)
(***************************************************************************)
\* A reportActionImport call increments the processed number of job id.
ActionIncrements(id) ==
  /\ Exists(id) /\ HasCounter(id)
  /\ counters'[id] = [counters[id] EXCEPT !.import_processed_number = @ + 1]

\* C11: on a job expecting N >= 1 sub-items with none processed, each of
\* the first N-1 reportActionImport calls obtains isComplete = false and
\* leaves the job record unfinalized, the N-th call obtains isComplete =
\* true with total = N, and its update leaves the record with status
\* complete and completed_number = N.
C11_SequentialReports ==
  [][ /\ \A id \in WorkIds :
           (ActionIncrements(id) /\ Expected(id) >= 1 /\ Processed(id) < Expected(id)) =>
             IF Processed(id) + 1 < Expected(id)
               THEN /\ works' = works
                    /\ \A p \in Procs : pc'[p] # pc[p] => ~ pc'[p].isComplete
               ELSE \E p \in Procs :
                      /\ pc[p] = Idle
                      /\ pc'[p].op = "reportActionImport"
                      /\ pc'[p].workId = id
                      /\ pc'[p].isComplete
                      /\ pc'[p].total = Expected(id)
      /\ \A p \in Procs, id \in WorkIds :
           (ActionUpdates(p, id) /\ pc[p].errorData = NoErrorData) =>
             /\ pc[p].isComplete
             /\ works'[id].status = "complete"
             /\ works'[id].completed_number = pc[p].total ]_vars

\* Two reportActionImport calls without error data on a waiting job that
\* expects two sub-items have returned: the second finalized the job.
C11_Witness ==
  \E id \in WorkIds :
    /\ Exists(id) /\ HasCounter(id)
    /\ Expected(id) = 2 /\ Processed(id) = 2
    /\ reports = 2 /\ finalWrites[id] = 1 /\ actionFinal[id] = 1
    /\ \A p \in Procs : pc[p] = Idle
    /\ works[id].status = "complete"
    /\ works[id].completed_number = 2
    /\ works[id].errors = << >>

\* The export jobs of a source.
ExportJobs(sourceId) ==
  { id \in WorkIds : /\ Exists(id)
                     /\ works[id].event_source_id = sourceId
                     /\ works[id].event_type = CONNECTOR_INTERNAL_EXPORT_FILE }

\* C12: loadExportWorksAsProgressFiles(sourceId) lists the export jobs of
\* the source (the 10 most recent), leaves a listed job out of its result if
\* and only if the job is complete with an empty errors log, gives every
\* other listed job a descriptor whose uploadStatus is the job's status, and
\* changes no job record and no counter record.
C12_ExportProjection ==
  [][\A p \in Procs :
       (pc[p] = Idle /\ pc'[p].op = "loadExportWorksAsProgressFiles") =>
         LET listed == pc'[p].listed
             files == pc'[p].files
         IN  /\ listed \subseteq ExportJobs(pc'[p].sourceId)
             /\ Cardinality(listed) = Min(exportFirst, Cardinality(ExportJobs(pc'[p].sourceId)))
             /\ \A id \in listed :
                  (\A f \in files : f.id # id)
                    <=> (works[id].status = "complete" /\ works[id].errors = << >>)
             /\ \A f \in files :
                  /\ f.id \in listed
                  /\ f.uploadStatus = works[f.id].status
                  /\ f.metaData = [messages |-> works[f.id].messages,
                                   errors |-> works[f.id].errors]
             /\ works' = works
             /\ counters' = counters]_vars

\* The projection has listed a complete export job with a logged error and
\* kept it in its result.
C12_Witness ==
  \E p \in Procs :
    /\ pc[p].op = "loadExportWorksAsProgressFiles"
    /\ pc[p].listed # {}
    /\ \E f \in pc[p].files : f.uploadStatus = "complete" /\ f.metaData.errors # << >>

(***************************************************************************)
(* Properties of the retention scan run alone, checked under SpecScan.    *)
(***************************************************************************)
\* The scan of caller p removes the record of job id.
ScanRemoves(p, id) ==
  /\ InScan(p) /\ pc[p].step = "elDeleteInstanceIds"
  /\ Exists(id) /\ works'[id] = NoWork

\* The scan of caller p returns.
ScanReturns(p) ==
  /\ InScan(p) /\ pc[p].step = "search"
  /\ pc'[p] = Idle \/ pc'[p].step = "redisCreateWork"

\* C13: the retention horizon depends only on the connector type: the scan
\* removes complete jobs only, of an enrichment connector only those
\* completed at least 2 days before now, of any other connector only those
\* completed at least 30 days before now; younger jobs are kept.
C13_HorizonByType ==
  [][\A p \in Procs, id \in WorkIds :
       ScanRemoves(p, id) =>
         /\ works[id].status = "complete"
         /\ now - works[id].completed_time >=
              TicksPerDay * (IF pc[p].connector.connector_type = CONNECTOR_INTERNAL_ENRICHMENT
                               THEN 2 ELSE 30)]_vars

\* C17: when the scan of a connector returns and no other operation ran
\* meanwhile, no job of the connector matching the query of the scan
\* remains, whatever the number of eligible jobs, their completed_time and
\* their errors log, and no counter remains without its job.
C17_ScanLeavesNoEligible ==
  [][\A p \in Procs :
       ScanReturns(p) =>
         \A id \in WorkIds :
           /\ ~ MatchesQuery(pc[p].connector, works'[id])
           /\ works'[id] = NoWork => counters'[id] = NoCounter]_vars

\* The scan of caller p is in its loop.
ScanLoops(p) ==
  /\ InScan(p)
  /\ pc[p].step \in {"search", "redisDeleteWork", "elDeleteInstanceIds"}

\* C23: the retention scan terminates: with the platform as the only caller
\* a scan that has started leaves its loop, it leaves it only on a search
\* that returns an empty page, and a search that returns an empty page is
\* followed by no other search of the scan.
C23_ScanTerminates ==
  /\ \A p \in Platform : ScanLoops(p) ~> ~ ScanLoops(p)
  /\ [][\A p \in Platform :
          (ScanLoops(p) /\ pc'[p] # pc[p]) =>
            (~ ScanLoops(p)' <=>
               /\ pc[p].step = "search"
               /\ SearchPages(pc[p].connector, pc[p].searchAfter) = {{}})]_vars

\* A scan has removed a page of one job and is back at its search, which
\* returns an empty page although a job of the connector is left.
C23_Witness ==
  \E p \in Platform :
    /\ ScanLoops(p) /\ pc[p].step = "search"
    /\ pc[p].searchAfter # Null
    /\ SearchPages(pc[p].connector, pc[p].searchAfter) = {{}}
    /\ \E id \in WorkIds : Exists(id) /\ works[id].connector_id = pc[p].connector.id

\* The horizon of a connector: the age past which its complete jobs are
\* removed, 2 days for an enrichment connector and 30 days for any other.
Horizon(connector) == TicksPerDay * rangeToKeep(connector)

\* C28: the scan of a connector, run by createWork or on its own, leaves
\* unchanged the job record and the counter record of every job of another
\* connector and of every job of the connector completed less than the
\* horizon ago.
C28_ScanFrame ==
  [][\A p \in Platform, id \in WorkIds :
       (/\ ScanLoops(p)
        /\ Exists(id)
        /\ \/ works[id].connector_id # pc[p].connector.id
           \/ /\ works[id].completed_time # Null
              /\ now - works[id].completed_time < Horizon(pc[p].connector)) =>
         /\ works'[id] = works[id]
         /\ counters'[id] = counters[id]]_vars

\* The elUpdate of an updateProcessedTime call of p is applied to job id.
ProcessedUpdates(p, id) ==
  /\ pc[p].op = "updateProcessedTime"
  /\ pc[p].workId = id
  /\ pc'[p] = Idle
  /\ Both(id)

\* C18: when updateProcessedTime finalizes a job that an earlier
\* updateProcessedTime call has finalized already, it writes the same
\* completed_number again: the repeated write leaves status complete and
\* completed_number as the first finalization left them.
C18_RepeatedFinalizationSame ==
  [][\A p \in Procs, id \in WorkIds :
       ( /\ ProcessedUpdates(p, id) /\ pc[p].isComplete
         /\ finalWrites[id] = 1 /\ actionFinal[id] = 0 )
       => /\ works'[id].status = "complete"
          /\ works'[id].completed_number = works[id].completed_number]_vars

\* C19: updateProcessedTime decides the completion from the counter record
\* it reads (processed number = expected number) and then makes one update
\* of the job record, which sets processed_time, sets status complete,
\* completed_number = the processed number read and completed_time exactly
\* when the read showed completion, and appends a non-empty message to
\* errors when inError and to messages otherwise, nothing when it is empty.
C19_ProcessedUpdate ==
  [][\A p \in Procs, id \in WorkIds :
       /\ (pc[p] = Idle /\ pc'[p].op = "updateProcessedTime" /\ pc'[p].workId = id) =>
            /\ pc'[p].isComplete <=> (Processed(id) = Expected(id))
            /\ pc'[p].total = Processed(id)
            /\ pc'[p].processed_time = now
            /\ works' = works
       /\ ProcessedUpdates(p, id) =>
            LET w == works[id]
                entry == [timestamp |-> pc[p].processed_time, message |-> pc[p].message]
                logged == pc[p].message # ""
            IN  /\ works'[id].processed_time = pc[p].processed_time
                /\ IF pc[p].isComplete
                     THEN /\ works'[id].status = "complete"
                          /\ works'[id].completed_number = pc[p].total
                          /\ works'[id].completed_time = pc[p].processed_time
                     ELSE /\ works'[id].status = w.status
                          /\ works'[id].completed_number = w.completed_number
                          /\ works'[id].completed_time = w.completed_time
                /\ works'[id].errors =
                     IF logged /\ pc[p].inError THEN Append(w.errors, entry) ELSE w.errors
                /\ works'[id].messages =
                     IF logged /\ ~ pc[p].inError THEN Append(w.messages, entry) ELSE w.messages
                /\ works'[id].received_time = w.received_time
                /\ \A o \in WorkIds \ {id} : works'[o] = works[o]
                /\ counters' = counters]_vars

\* An updateProcessedTime call in error read the counter at 1 / 1: its
\* update finalized the job with completed_number 1 and logged the error.
C19_Witness ==
  \E id \in WorkIds :
    /\ Exists(id) /\ HasCounter(id)
    /\ Expected(id) = 1 /\ Processed(id) = 1
    /\ works[id].status = "complete"
    /\ works[id].completed_number = 1
    /\ works[id].processed_time = clock
    /\ works[id].completed_time = clock
    /\ works[id].errors = << [timestamp |-> clock, message |-> "m"] >>
    /\ works[id].messages = << >>

\* A reporting call changes a job record in its first step: only
\* updateReceivedTime does.
ReceivedUpdates == reports' = reports + 1 /\ works' # works

\* C20: updateReceivedTime makes one update of the job record, which sets
\* status progress and received_time = now and appends the message to
\* messages only if it is not empty; errors, processed_time,
\* completed_time, completed_number, every other field and record, and the
\* counter records are left unchanged.
C20_ReceivedUpdate ==
  [][ReceivedUpdates =>
       /\ \E id \in WorkIds, m \in Messages :
            /\ Exists(id)
            /\ works' = [works EXCEPT ![id] =
                           [@ EXCEPT !.status = "progress",
                                     !.received_time = now,
                                     !.messages = IF m # ""
                                                    THEN Append(@, [timestamp |-> now,
                                                                    message |-> m])
                                                    ELSE @]]
       /\ counters' = counters
       /\ pc' = pc]_vars

\* updateReceivedTime with a message was applied to a complete job: the
\* status is progress again and the completion fields are as they were.
C20_Witness ==
  \E id \in WorkIds :
    /\ Exists(id)
    /\ works[id].status = "progress"
    /\ works[id].received_time = clock
    /\ works[id].messages = << [timestamp |-> clock, message |-> "m"] >>
    /\ works[id].completed_time # Null
    /\ works[id].processed_time # Null
    /\ works[id].errors = << >>
    /\ finalWrites[id] = 1

\* C24: a reportActionImport call whose increment does not report
\* completion and that carries no error data makes no update of the job
\* record: its increment leaves every job record as it was, advances the
\* processed number of its job by one and nothing else in the counter
\* store, and starts no update; an update is started only by a call that
\* obtained completion or carries error data.
C24_NoUpdateWithoutCause ==
  [][ /\ \A id \in WorkIds :
           (ActionIncrements(id) /\ Processed(id) + 1 # Expected(id)) =>
             /\ works' = works
             /\ counters' = [counters EXCEPT ![id].import_processed_number = @ + 1]
             /\ \A p \in Procs : pc'[p] # pc[p] => pc'[p].errorData # NoErrorData
      /\ \A p \in Procs :
           (pc[p] = Idle /\ pc'[p] # Idle /\ pc'[p].op = "reportActionImport") =>
             pc'[p].isComplete \/ pc'[p].errorData # NoErrorData ]_vars

\* The first reportActionImport call on a waiting job that expects two
\* sub-items has returned: the record is as it was created.
C24_Witness ==
  \E id \in WorkIds :
    /\ Exists(id) /\ HasCounter(id)
    /\ Expected(id) = 2 /\ Processed(id) = 1
    /\ reports = 1
    /\ \A p \in Procs : pc[p] = Idle
    /\ works[id] \in ReportSeeds
    /\ works[id].status = "wait"
    /\ ~ enMoved[id]

\* The processed number of job id has reached its expected number N >= 1,
\* which was fixed before the first report.
ReachedFixed(id) ==
  /\ Exists(id) /\ HasCounter(id)
  /\ Expected(id) >= 1
  /\ Processed(id) = Expected(id)
  /\ ~ enMoved[id]

\* C25: once N reportActionImport calls are issued on a job whose expected
\* number was fixed at N >= 1 before any report, a reportActionImport call
\* finalizes the job, leaving status complete; and a reportActionImport
\* call issued when the processed number has passed the expected number
\* does not obtain completion.
C25_CompletionLive ==
  /\ \A id \in WorkIds : ReachedFixed(id) ~> (actionFinal[id] >= 1)
  /\ [][\A id \in WorkIds :
          /\ actionFinal'[id] # actionFinal[id] =>
                works'[id] # NoWork /\ works'[id].status = "complete"
          /\ (ActionIncrements(id) /\ Processed(id) > Expected(id)) =>
                \A p \in Procs : pc'[p] # pc[p] => ~ pc'[p].isComplete]_vars

\* The first report on a job expecting one sub-item finalized it, and a
\* second report, made past the expected number with error data, returned
\* without finalizing it again.
C25_Witness ==
  \E id \in WorkIds :
    /\ Exists(id) /\ HasCounter(id)
    /\ Expected(id) = 1 /\ Processed(id) = 2
    /\ ~ enMoved[id]
    /\ actionFinal[id] = 1
    /\ \A p \in Procs : pc[p] = Idle
    /\ works[id].status = "complete"
    /\ works[id].completed_number = 1
    /\ Len(works[id].errors) = 1
    /\ works[id].errors[1].timestamp = works[id].completed_time

\* C26: an updateProcessedTime call that reads the counter record as
\* createWork left it, with no sub-item expected and none processed, obtains
\* completion with total 0, and its update leaves the job record with
\* status complete, completed_time = the now() of the call and
\* completed_number = 0.
C26_EmptyCounterCompletes ==
  [][\A p \in Procs, id \in WorkIds :
       /\ (/\ pc[p] = Idle
           /\ pc'[p] # Idle
           /\ pc'[p].op = "updateProcessedTime"
           /\ pc'[p].workId = id
           /\ counters[id] = workTracing) =>
             /\ pc'[p].isComplete
             /\ pc'[p].total = 0
             /\ pc'[p].processed_time = now
       /\ (/\ pc[p].op = "updateProcessedTime"
           /\ pc[p].workId = id
           /\ pc[p].isComplete /\ pc[p].total = 0
           /\ pc'[p] = Idle /\ Exists(id)) =>
             /\ works'[id] # NoWork
             /\ works'[id].status = "complete"
             /\ works'[id].completed_time = pc[p].processed_time
             /\ works'[id].completed_number = 0]_vars

\* The only call on a waiting job was an updateProcessedTime call made
\* before any sub-item was expected or processed: the job is complete with
\* no sub-item counted.
C26_Witness ==
  \E id \in WorkIds :
    /\ Exists(id) /\ counters[id] = workTracing
    /\ reports = 1 /\ finalWrites[id] = 1
    /\ \A p \in Procs : pc[p] = Idle
    /\ works[id].status = "complete"
    /\ works[id].completed_time = clock
    /\ works[id].processed_time = clock
    /\ works[id].completed_number = 0
    /\ works[id].received_time = Null

\* A reportActionImport call on job id is made: the caller was idle and
\* the call is counted.
ActionCalled(id) ==
  /\ reports' = reports + 1
  /\ Exists(id) /\ HasCounter(id)
  /\ \/ counters'[id] # counters[id]
     \/ \E p \in Procs : /\ pc[p] = Idle /\ pc'[p] # Idle
                          /\ pc'[p].op = "reportActionImport"
                          /\ pc'[p].workId = id

\* A step of updateReceivedTime or of updateProcessedTime.
ReceivedOrProcessedStep ==
  \/ ReceivedUpdates
  \/ \E p \in Procs :
       /\ pc'[p] # pc[p]
       /\ pc[p].op = "updateProcessedTime" \/ pc'[p].op = "updateProcessedTime"

\* C29: only reportActionImport advances the counter: no step of
\* updateReceivedTime or updateProcessedTime changes the counter record of
\* any job; a reportActionImport call, with or without error data, adds
\* exactly one to the processed number of its job and leaves the expected
\* number; and the processed number of a job never decreases.
C29_OnlyReportActionCounts ==
  [][ /\ ReceivedOrProcessedStep => counters' = counters
      /\ \A id \in WorkIds :
           /\ ActionCalled(id) =>
                 counters' = [counters EXCEPT ![id].import_processed_number = @ + 1]
           /\ (HasCounter(id) /\ counters'[id] # NoCounter) =>
                 /\ Processed(id)' >= Processed(id)
                 /\ Processed(id)' # Processed(id) =>
                       /\ Processed(id)' = Processed(id) + 1
                       /\ Expected(id)' = Expected(id)
                       /\ reports' = reports + 1 ]_vars

\* A reportActionImport call with error data and an updateProcessedTime
\* call have returned: one sub-item is counted as processed.
C29_Witness ==
  \E id \in WorkIds :
    /\ Exists(id) /\ HasCounter(id)
    /\ Processed(id) = 1 /\ Expected(id) = 2
    /\ reports = 2
    /\ \A p \in Procs : pc[p] = Idle
    /\ Len(works[id].errors) = 1
    /\ "source" \in DOMAIN works[id].errors[1]
    /\ works[id].processed_time = clock
    /\ works[id].status = "wait"

(***************************************************************************)
(* Properties of the calls whose store calls fail, checked under SpecFail. *)
(***************************************************************************)
\* createWork of caller p is at work on job id.
Creating(p, id) == pc[p].op = "createWork" /\ pc[p].workId = id

\* Job id has a counter record and no job record, and no createWork call
\* is at work on it.
Orphan(id) ==
  /\ HasCounter(id) /\ ~ Exists(id)
  /\ \A p \in Procs : ~ Creating(p, id)

\* C22: createWork writes the counter record after its scan and inserts
\* the job record after the counter record, and rolls nothing back: a job
\* record is inserted only where the counter write succeeded; when the
\* insert fails the call fails with a store error, and the counter record
\* of the new id stays, without a job record.
C22_NoRollback ==
  [][ /\ \A id \in WorkIds :
           /\ (~ HasCounter(id) /\ counters'[id] # NoCounter) =>
                \E p \in Procs : /\ Creating(p, id)
                                  /\ pc[p].step = "redisCreateWork"
                                  /\ pc[p].hits = {}
                                  /\ pc'[p].step = "elIndex"
           /\ (~ Exists(id) /\ works'[id] # NoWork) =>
                /\ HasCounter(id)
                /\ \E p \in Procs : Creating(p, id) /\ pc[p].step = "elIndex"
           /\ Orphan(id) => (counters'[id] = counters[id] /\ works'[id] = NoWork)
      /\ \A p \in Procs :
           (pc[p].op = "createWork" /\ pc[p].step = "elIndex" /\ pc'[p] = Idle) =>
             /\ storeError'
             /\ counters' = counters /\ works' = works
             /\ counters[pc[p].workId] = workTracing
             /\ ~ Exists(pc[p].workId)
      /\ \A p \in Procs :
           (pc[p].op = "createWork" /\ pc[p].step = "redisCreateWork" /\ pc'[p] = Idle) =>
             /\ storeError'
             /\ counters' = counters /\ works' = works
             /\ ~ HasCounter(pc[p].workId) /\ ~ Exists(pc[p].workId) ]_vars

\* The insert of a first createWork call failed and left its counter
\* record; a second call has created its job since.
C22_Witness ==
  /\ storeError
  /\ \E id \in WorkIds : Orphan(id) /\ counters[id] = workTracing
  /\ \E o \in WorkIds : Exists(o) /\ HasCounter(o)
  /\ \A p \in Procs : pc[p] = Idle

\* The elUpdate of a reportActionImport call of p that obtained completion
\* for job id fails: the call ends and no finalizing write is made.
FinalUpdateFails(p, id) ==
  /\ pc[p].op = "reportActionImport"
  /\ pc[p].workId = id
  /\ pc[p].isComplete
  /\ pc'[p] = Idle
  /\ actionFinal'[id] = actionFinal[id]

\* The processed number of job id reached its expected number N >= 1,
\* fixed before the first report, and the call that obtained completion
\* ended without its finalizing write.
Lost(id) ==
  /\ Exists(id) /\ HasCounter(id)
  /\ Expected(id) >= 1
  /\ Processed(id) >= Expected(id)
  /\ ~ enMoved[id]
  /\ actionFinal[id] = 0
  /\ \A p \in Procs :
       ~ (pc[p].op = "reportActionImport" /\ pc[p].workId = id /\ pc[p].isComplete)

\* C27: when the elUpdate of the reportActionImport call that obtained
\* completion fails, the increment is not undone: the counter records and
\* the job records are as they were before the failure, so the processed
\* number stays advanced and the status is the previous one; and as long as
\* the expected number does not change, no reportActionImport call obtains
\* completion afterwards and the status of the job record stays as it is.
C27_IncrementNotUndone ==
  [][\A id \in WorkIds :
       /\ \A p \in Procs :
            FinalUpdateFails(p, id) =>
              /\ storeError'
              /\ counters' = counters
              /\ works' = works
              /\ HasCounter(id) => Processed(id) >= pc[p].total
       /\ (Lost(id) /\ ~ enMoved'[id]) =>
            /\ Lost(id)'
            /\ Expected(id)' = Expected(id)
            /\ works'[id].status = works[id].status
            /\ \A p \in Procs :
                 (pc'[p] # pc[p] /\ pc'[p].op = "reportActionImport") =>
                   ~ pc'[p].isComplete]_vars

\* The call that obtained completion failed in its update, a later call
\* with error data returned, and the job is still waiting with the
\* processed number past the expected number.
C27_Witness ==
  \E id \in WorkIds :
    /\ Lost(id) /\ storeError
    /\ Expected(id) = 1 /\ Processed(id) = 2
    /\ works[id].status = "wait"
    /\ Len(works[id].errors) = 1
    /\ \A p \in Procs : pc[p] = Idle

=============================================================================
